---- MODULE Spec2Model ----
(***************************************************************************)
(* Model of the spelling crate (src/src/lib.rs): the exact Levenshtein     *)
(* kernel, the banded early-terminating kernel, and the two aggregators    *)
(* (spellcheck, spell_check_rayon).                                        *)
(*                                                                         *)
(* Strings are sequences of Unicode scalar values (what .chars() yields).  *)
(* A call's outcome is a record [kind, value]: kind is "Some", "None" or   *)
(* "Panic" (a Rust panic: arithmetic overflow in a build with overflow     *)
(* checks, an out-of-bounds index, a capacity overflow).                   *)
(***************************************************************************)
EXTENDS Integers, Sequences, FiniteSets

VARIABLES
    a, b,             \* the two strings handed to the kernels (KernelSpec)
    max_distance,     \* the bound of the call
    overflow_checks,  \* TRUE: arithmetic overflow panics (debug); FALSE: it wraps (release)
    distance,         \* outcome of levenshtein_distance(a, b), or NotCalled
    bounded,          \* outcome of levenshtein_distance_with_max(a, b, max_distance), or NotCalled
    word,             \* the query of the aggregators (Spec)
    dictionary,       \* the candidates, in dictionary order
    seq_result,       \* outcome of spellcheck: NotCalled, Panic or Returned(dictionary positions)
    seq_suggestions,  \* spellcheck's (distance, candidate) pairs after its sort
    par_evaluated,    \* positions whose per-candidate evaluation has completed (rayon)
    par_gathered,     \* the (distance, candidate) pairs the closures have produced so far
    par_pc,           \* "eval", "sorted" or "panicked"
    par_suggestions,  \* spell_check_rayon's (distance, candidate) pairs after its sort
    par_result        \* outcome of spell_check_rayon, as seq_result

vars == <<a, b, max_distance, overflow_checks, distance, bounded, word, dictionary,
          seq_result, seq_suggestions, par_evaluated, par_gathered, par_pc,
          par_suggestions, par_result>>

\* ---------------------------------------------------------------- bounds
MaxLen == 3          \* longest string handed to the kernels
MaxDistance == 3     \* largest max_distance handed to the kernels
MaxDict == 2         \* longest dictionary
MaxCandLen == 1      \* longest dictionary entry
MaxWordLen == 2      \* longest query
MaxAggDistance == 2  \* largest max_distance handed to the aggregators
UsizeBits == 16      \* width of usize in the model (scaled down from 64)

Alphabet == {"a", "b"}

RECURSIVE StringsOfLen(_)
StringsOfLen(n) ==
    IF n = 0 THEN {<<>>}
    ELSE {Append(s, c) : s \in StringsOfLen(n - 1), c \in Alphabet}

Strings(n) == UNION {StringsOfLen(m) : m \in 0..n}

\* ---------------------------------------------------------------- outcomes
Some(n) == [kind |-> "Some", value |-> n]
None == [kind |-> "None", value |-> 0]
Panic == [kind |-> "Panic", value |-> 0]
NotCalled == [kind |-> "NotCalled", value |-> 0]

Min2(x, y) == IF x <= y THEN x ELSE y
Min3(x, y, z) == Min2(x, Min2(y, z))

RECURSIVE SeqMin(_)
SeqMin(v) == IF Len(v) = 1 THEN v[1] ELSE Min2(v[1], SeqMin(Tail(v)))

\* ---------------------------------------------------------------- usize
RECURSIVE Pow2(_)
Pow2(n) == IF n = 0 THEN 1 ELSE 2 * Pow2(n - 1)

UsizeModulus == Pow2(UsizeBits)
IsizeMax == Pow2(UsizeBits - 1) - 1
BytesPerUsize == UsizeBits \div 8

\* `x as usize` for an isize x
AsUsize(x) == IF x < 0 THEN x + UsizeModulus ELSE x

\* usize subtraction x - y: panics with overflow checks, wraps without
UsizeSub(x, y, checks) ==
    IF x >= y THEN Some(x - y)
    ELSE IF checks THEN Panic
    ELSE Some((x - y + UsizeModulus) % UsizeModulus)

\* Vec::<usize>::with_capacity(n) panics ("capacity overflow") over isize::MAX bytes
CapacityOverflow(n) == n * BytesPerUsize > IsizeMax

\* ---------------------------------------------------------------- lev
\* the reference recursion of the source's comment
RECURSIVE lev(_, _)
lev(x, y) ==
    IF Len(x) = 0 THEN Len(y)
    ELSE IF Len(y) = 0 THEN Len(x)
    ELSE IF x[1] = y[1] THEN lev(Tail(x), Tail(y))
    ELSE 1 + Min3(lev(Tail(x), Tail(y)), lev(Tail(x), y), lev(x, Tail(y)))

\* ---------------------------------------------------------------- levenshtein_distance
\* inner loop, for j in 1..=a_len; vector is 1-based here: vector[j] of the code is vector[j + 1]
RECURSIVE FullInner(_, _, _, _, _)
FullInner(j, vector, up_left, short, b_char) ==
    IF j > Len(short) THEN vector
    ELSE IF short[j] = b_char
         THEN FullInner(j + 1, [vector EXCEPT ![j + 1] = up_left], vector[j + 1], short, b_char)
         ELSE LET deletion_cost == vector[j + 1] + 1
                  insertion_cost == vector[j] + 1
                  sub_cost == up_left + 1
              IN FullInner(j + 1,
                           [vector EXCEPT ![j + 1] = Min3(deletion_cost, insertion_cost, sub_cost)],
                           vector[j + 1], short, b_char)

\* the outer loop without its `vector[0] = i + 1`
RECURSIVE FullOuterStaleFirstCell(_, _, _, _)
FullOuterStaleFirstCell(i, vector, short, long) ==
    IF i >= Len(long) THEN vector
    ELSE FullOuterStaleFirstCell(i + 1,
                                 FullInner(1, vector, vector[1], short, long[i + 1]),
                                 short, long)

\* outer loop, for i in 0..b_len
RECURSIVE FullOuter(_, _, _, _)
FullOuter(i, vector, short, long) ==
    IF i >= Len(long) THEN vector
    ELSE FullOuter(i + 1,
                   FullInner(1, [vector EXCEPT ![1] = i + 1], vector[1], short, long[i + 1]),
                   short, long)

levenshtein_distance(x, y) ==
    LET short == IF Len(x) > Len(y) THEN y ELSE x
        long == IF Len(x) > Len(y) THEN x ELSE y
        a_len == Len(short)
        vector == [i \in 1..(a_len + 1) |-> i - 1]
    IN FullOuter(0, vector, short, long)[a_len + 1]

\* ---------------------------------------------------------------- levenshtein_distance_with_max
\* the "large number" pushed as padding and as the initial next_vector
Padding == 9

\* vector before the first row: max_distance - 1 paddings, then 0..max_distance-1
InitialVector(max) == [j \in 1..(2 * max - 1) |-> IF j < max THEN Padding ELSE j - max]

InitialNextVector(max) == [j \in 1..(2 * max - 1) |-> Padding]

\* the cell written at window position j (0-based) when the characters differ
BandCost(j, vector, next_vector, k, max) ==
    LET deletion_cost == (IF j = k - 1 THEN max ELSE vector[j + 2]) + 1
        insertion_cost == (IF j = 0 THEN max ELSE next_vector[j]) + 1
        sub_cost == vector[j + 1] + 1
    IN Min3(deletion_cost, insertion_cost, sub_cost)

\* whether the indexing of one window position stays inside vector, next_vector and b_chars
BandAccessOk(j, vector, next_vector, b_chars, char_index, k) ==
    /\ char_index + 1 \in DOMAIN b_chars
    /\ j + 1 \in DOMAIN vector
    /\ j + 1 \in DOMAIN next_vector
    /\ (j = k - 1 \/ j + 2 \in DOMAIN vector)
    /\ (j = 0 \/ j \in DOMAIN next_vector)

\* inner loop, for j in 0..k: the next_vector it leaves, or <<>> when an index is out of bounds
RECURSIVE BandInner(_, _, _, _, _, _, _, _)
BandInner(j, next_vector, vector, a_char, b_chars, i, offset, max) ==
    LET k == max * 2 - 1
        char_index == j + offset
    IN IF j >= k THEN next_vector
       ELSE IF char_index = -1
            THEN IF j + 1 \in DOMAIN next_vector
                 THEN BandInner(j + 1, [next_vector EXCEPT ![j + 1] = i + 1],
                                vector, a_char, b_chars, i, offset, max)
                 ELSE <<>>
       ELSE IF char_index < 0 \/ char_index >= Len(b_chars)
            THEN BandInner(j + 1, next_vector, vector, a_char, b_chars, i, offset, max)
       ELSE IF ~BandAccessOk(j, vector, next_vector, b_chars, char_index, k) THEN <<>>
       ELSE LET cost == IF a_char = b_chars[char_index + 1]
                        THEN vector[j + 1]
                        ELSE BandCost(j, vector, next_vector, k, max)
            IN BandInner(j + 1, [next_vector EXCEPT ![j + 1] = cost],
                         vector, a_char, b_chars, i, offset, max)

\* what follows the loop over a: the cell of the last column of b, or its reconstruction
BandResult(vector, offset, b_len, max, checks) ==
    LET k == max * 2 - 1
    IN IF AsUsize(k + offset) <= b_len
       THEN LET rest == UsizeSub(vector[Len(vector)] + b_len, AsUsize(k + offset), checks)
            IN IF rest.kind = "Panic" THEN Panic
               ELSE IF rest.value > max THEN None ELSE Some(rest.value)
       ELSE LET index == UsizeSub(b_len, AsUsize(offset), checks)
            IN IF index.kind = "Panic" THEN Panic
               ELSE IF index.value + 1 \notin DOMAIN vector THEN Panic
               ELSE IF vector[index.value + 1] > max THEN None
               ELSE Some(vector[index.value + 1])

\* outer loop, for i in 0..a_len, with the early return after each row
RECURSIVE BandOuter(_, _, _, _, _, _, _, _)
BandOuter(i, vector, next_vector, offset, short, long, max, checks) ==
    IF i >= Len(short) THEN BandResult(vector, offset, Len(long), max, checks)
    ELSE LET row == BandInner(0, next_vector, vector, short[i + 1], long, i, offset, max)
         IN IF row = <<>> THEN Panic
            ELSE IF SeqMin(row) > max THEN None
            ELSE BandOuter(i + 1, row, row, offset + 1, short, long, max, checks)

levenshtein_distance_with_max(x, y, max, checks) ==
    LET short == IF Len(x) > Len(y) THEN y ELSE x
        long == IF Len(x) > Len(y) THEN x ELSE y
        k == max * 2 - 1
    IN IF Len(long) - Len(short) > max THEN None
       ELSE IF CapacityOverflow(AsUsize(k)) THEN Panic
       ELSE BandOuter(0, InitialVector(max), InitialNextVector(max), 1 - max,
                      short, long, max, checks)

\* ---------------------------------------------------------------- the kernels, called
KernelInit ==
    /\ a \in Strings(MaxLen)
    /\ b \in Strings(MaxLen)
    /\ max_distance \in 0..MaxDistance
    /\ overflow_checks \in BOOLEAN
    /\ distance = NotCalled
    /\ bounded = NotCalled
    /\ word = <<>>
    /\ dictionary = <<>>
    /\ seq_result = NotCalled
    /\ seq_suggestions = <<>>
    /\ par_evaluated = {}
    /\ par_gathered = {}
    /\ par_pc = "eval"
    /\ par_suggestions = <<>>
    /\ par_result = NotCalled

CallDistance ==
    /\ distance = NotCalled
    /\ distance' = Some(levenshtein_distance(a, b))
    /\ UNCHANGED <<a, b, max_distance, overflow_checks, bounded, word, dictionary,
                   seq_result, seq_suggestions, par_evaluated, par_gathered, par_pc,
                   par_suggestions, par_result>>

CallDistanceWithMax ==
    /\ bounded = NotCalled
    /\ bounded' = levenshtein_distance_with_max(a, b, max_distance, overflow_checks)
    /\ UNCHANGED <<a, b, max_distance, overflow_checks, distance, word, dictionary,
                   seq_result, seq_suggestions, par_evaluated, par_gathered, par_pc,
                   par_suggestions, par_result>>

KernelNext == CallDistance \/ CallDistanceWithMax

KernelSpec == KernelInit /\ [][KernelNext]_vars

\* ---------------------------------------------------------------- the aggregators
\* dictionaries of at most n entries
RECURSIVE Dictionaries(_)
Dictionaries(n) ==
    IF n = 0 THEN {<<>>}
    ELSE Dictionaries(n - 1) \cup
         {Append(d, c) : d \in {e \in Dictionaries(n - 1) : Len(e) = n - 1},
                         c \in Strings(MaxCandLen)}

\* a candidate is a borrowed reference: it is named by its position in the dictionary
Returned(candidates) == [kind |-> "Returned", value |-> candidates]

\* the closure of filter_map: the kernel's outcome for the candidate at position i
Evaluate(dict, w, max, checks, i) == levenshtein_distance_with_max(w, dict[i], max, checks)

\* whether the closure keeps the candidate: distance.map(...) is Some
Keeps(outcome) == outcome.kind = "Some"

\* the filter with an exclusive bound: a candidate at exactly max is dropped
RECURSIVE FilterMapCollectExclusive(_, _, _, _, _)
FilterMapCollectExclusive(dict, w, max, checks, i) ==
    IF i > Len(dict) THEN <<>>
    ELSE LET outcome == Evaluate(dict, w, max, checks, i)
             rest == FilterMapCollectExclusive(dict, w, max, checks, i + 1)
         IN IF Keeps(outcome) /\ outcome.value < max
            THEN <<(<<outcome.value, i>>)>> \o rest
            ELSE rest

\* filter_map(..).collect(): the (distance, candidate) pairs kept, in dictionary order
RECURSIVE FilterMapCollect(_, _, _, _, _)
FilterMapCollect(dict, w, max, checks, i) ==
    IF i > Len(dict) THEN <<>>
    ELSE LET outcome == Evaluate(dict, w, max, checks, i)
             rest == FilterMapCollect(dict, w, max, checks, i + 1)
         IN IF Keeps(outcome) THEN <<(<<outcome.value, i>>)>> \o rest ELSE rest

\* whether v is in non-decreasing order of its key, the distance
SortedByKey(v) == \A i \in 1..(Len(v) - 1) : v[i][1] <= v[i + 1][1]

Rearrangements(v) ==
    LET n == Len(v)
        bijections == {f \in [1..n -> 1..n] : \A i, j \in 1..n : i # j => f[i] # f[j]}
    IN {[i \in 1..n |-> v[f[i]]] : f \in bijections}

\* the sort left out: the pairs stay in dictionary order
sort_omitted(v) == {v}

\* sort_unstable_by_key: sorted by key, equal keys in any order
sort_unstable_by_key(v) == {s \in Rearrangements(v) : SortedByKey(s)}

\* par_sort_unstable_by_key: the same contract
par_sort_unstable_by_key(v) == {s \in Rearrangements(v) : SortedByKey(s)}

\* into_iter().map(|(_, suggestion)| suggestion).collect()
Extract(suggestions) == [i \in 1..Len(suggestions) |-> suggestions[i][2]]

\* the outcomes spellcheck can have: a panic of the kernel unwinds through it
spellcheck(dict, w, max, checks) ==
    IF \E i \in 1..Len(dict) : Evaluate(dict, w, max, checks, i) = Panic
    THEN {[outcome |-> Panic, suggestions |-> <<>>]}
    ELSE {[outcome |-> Returned(Extract(s)), suggestions |-> s] :
              s \in sort_unstable_by_key(FilterMapCollect(dict, w, max, checks, 1))}

Init ==
    /\ a = <<>>
    /\ b = <<>>
    /\ distance = NotCalled
    /\ bounded = NotCalled
    /\ word \in Strings(MaxWordLen)
    /\ dictionary \in Dictionaries(MaxDict)
    /\ max_distance \in 0..MaxAggDistance
    /\ overflow_checks \in BOOLEAN
    /\ seq_result = NotCalled
    /\ seq_suggestions = <<>>
    /\ par_evaluated = {}
    /\ par_gathered = {}
    /\ par_pc = "eval"
    /\ par_suggestions = <<>>
    /\ par_result = NotCalled

CallSpellcheck ==
    /\ seq_result = NotCalled
    /\ \E r \in spellcheck(dictionary, word, max_distance, overflow_checks) :
           /\ seq_result' = r.outcome
           /\ seq_suggestions' = r.suggestions
    /\ UNCHANGED <<a, b, max_distance, overflow_checks, distance, bounded, word, dictionary,
                   par_evaluated, par_gathered, par_pc, par_suggestions, par_result>>

\* one worker's closure on one candidate, in whatever order the pool schedules them
ParEvaluate(i) ==
    /\ par_pc = "eval"
    /\ i \notin par_evaluated
    /\ LET outcome == Evaluate(dictionary, word, max_distance, overflow_checks, i)
       IN IF outcome = Panic
          THEN /\ par_pc' = "panicked"
               /\ par_result' = Panic
               /\ UNCHANGED <<par_evaluated, par_gathered>>
          ELSE /\ par_evaluated' = par_evaluated \cup {i}
               /\ par_gathered' = IF Keeps(outcome)
                                  THEN par_gathered \cup {<<outcome.value, i>>}
                                  ELSE par_gathered
               /\ UNCHANGED <<par_pc, par_result>>
    /\ UNCHANGED <<a, b, max_distance, overflow_checks, distance, bounded, word, dictionary,
                   seq_result, seq_suggestions, par_suggestions>>

\* no barrier: the sort may start with evaluations still outstanding
CollectUnsynchronised(evaluated, dict) == evaluated \subseteq DOMAIN dict

\* collect() returns once every candidate has been through the closure
CollectComplete(evaluated, dict) == evaluated = DOMAIN dict

\* collect() of the parallel iterator: the gathered pairs, in dictionary order
RECURSIVE ParCollect(_, _, _)
ParCollect(gathered, n, i) ==
    IF i > n THEN <<>>
    ELSE LET here == {p \in gathered : p[2] = i}
             rest == ParCollect(gathered, n, i + 1)
         IN IF here = {} THEN rest ELSE <<CHOOSE p \in here : TRUE>> \o rest

\* the gather-then-sort step and the extraction that follows it
ParSort ==
    /\ par_pc = "eval"
    /\ CollectComplete(par_evaluated, dictionary)
    /\ \E s \in par_sort_unstable_by_key(ParCollect(par_gathered, Len(dictionary), 1)) :
           /\ par_suggestions' = s
           /\ par_result' = Returned(Extract(s))
    /\ par_pc' = "sorted"
    /\ UNCHANGED <<a, b, max_distance, overflow_checks, distance, bounded, word, dictionary,
                   seq_result, seq_suggestions, par_evaluated, par_gathered>>

Next == CallSpellcheck

Spec == Init /\ [][Next]_vars

\* spell_check_rayon on its own: the bound is at least 1 there
RayonInit ==
    /\ Init
    /\ max_distance >= 1

RayonNext ==
    \/ \E i \in DOMAIN dictionary : ParEvaluate(i)
    \/ ParSort

RayonSpec == RayonInit /\ [][RayonNext]_vars

\* ================================================================ claims
BoundedCalled == bounded # NotCalled
SeqReturned == seq_result.kind = "Returned"

\* the kernel's outcome for the candidate at dictionary position p, in this state
Reported(p) == Evaluate(dictionary, word, max_distance, overflow_checks, p)

\* the true distance of the candidate at dictionary position p
TrueDistance(p) == levenshtein_distance(word, dictionary[p])

\* how often the string c occurs among the candidates at the positions of seq
Occurrences(seq, c) == Cardinality({i \in DOMAIN seq : dictionary[seq[i]] = c})

\* ---------------------------------------------------------------- KernelSpec
\* C1: for max_distance >= 1, whenever levenshtein_distance(a, b) <= max_distance,
\* levenshtein_distance_with_max(a, b, max_distance) returns Some(levenshtein_distance(a, b)),
\* also when the lengths of a and b differ by exactly max_distance. (Stated of the calls
\* that return: a call that panics is C8's matter.)
C1_BoundedAgreesWithinBound ==
    (/\ BoundedCalled
     /\ bounded.kind # "Panic"
     /\ max_distance >= 1
     /\ levenshtein_distance(a, b) <= max_distance)
        => bounded = Some(levenshtein_distance(a, b))

\* C2: for max_distance >= 1, whenever levenshtein_distance(a, b) > max_distance,
\* levenshtein_distance_with_max(a, b, max_distance) returns None.
\* (Stated of the calls that return, as C1.)
C2_BoundedNoneBeyondBound ==
    (/\ BoundedCalled
     /\ bounded.kind # "Panic"
     /\ max_distance >= 1
     /\ levenshtein_distance(a, b) > max_distance)
        => bounded = None

\* C3: levenshtein_distance(a, b) is the minimum number of single-character edits, as the
\* reference recursion lev gives it: 0 for two empty strings, the other string's character
\* count when one is empty.
C3_DistanceIsLev ==
    distance # NotCalled =>
        /\ distance = Some(lev(a, b))
        /\ (a = <<>> => distance.value = Len(b))
        /\ (b = <<>> => distance.value = Len(a))

\* the full kernel has run on two different non-empty strings, the first the longer one
C3_Witness ==
    /\ distance.kind = "Some"
    /\ distance.value >= 2
    /\ Len(a) > Len(b)
    /\ Len(b) >= 2
    /\ a[1] # b[1]

\* C4: with max_distance = 0 levenshtein_distance_with_max completes without failure:
\* Some(0) for identical strings, None otherwise.
C4_ZeroBoundExactMatch ==
    (BoundedCalled /\ max_distance = 0)
        => bounded = IF a = b THEN Some(0) ELSE None

\* C8: levenshtein_distance_with_max is total for max_distance >= 1: under checked
\* arithmetic no index is out of bounds and no usize subtraction or conversion underflows.
C8_BoundedTotal ==
    (BoundedCalled /\ max_distance >= 1 /\ overflow_checks) => bounded.kind # "Panic"

\* ---------------------------------------------------------------- Spec
\* C5: for max_distance >= 1 no candidate in the output of spellcheck has a true distance
\* to word above max_distance.
C5_NoCandidateBeyondBound ==
    (SeqReturned /\ max_distance >= 1)
        => \A i \in DOMAIN seq_result.value : TrueDistance(seq_result.value[i]) <= max_distance

\* C6: for max_distance >= 1 the output of spellcheck is in ascending order of true distance.
C6_AscendingTrueDistance ==
    (SeqReturned /\ max_distance >= 1)
        => \A i \in 1..(Len(seq_result.value) - 1) :
               TrueDistance(seq_result.value[i]) <= TrueDistance(seq_result.value[i + 1])

\* C7 as stated: two surviving candidates with the same reported distance keep their
\* dictionary order in the output of spellcheck. (Two occurrences of one string are told
\* apart only by address, so the order is required of different strings only.)
C7_StableTies ==
    SeqReturned =>
        \A i, j \in DOMAIN seq_result.value :
            (/\ i < j
             /\ Reported(seq_result.value[i]).value = Reported(seq_result.value[j]).value
             /\ dictionary[seq_result.value[i]] # dictionary[seq_result.value[j]])
                => seq_result.value[i] < seq_result.value[j]

\* C7 as amended: the output of spellcheck is in non-decreasing order of the distance the
\* kernel reported; the order among candidates of equal reported distance is unspecified.
C7_SortedByReportedDistance ==
    SeqReturned =>
        \A i, j \in DOMAIN seq_result.value :
            i < j => Reported(seq_result.value[i]).value <= Reported(seq_result.value[j]).value

\* spellcheck returned two different strings of equal reported distance against dictionary
\* order
C7_Witness ==
    /\ SeqReturned
    /\ Len(seq_result.value) = 2
    /\ Reported(seq_result.value[1]).value = Reported(seq_result.value[2]).value
    /\ dictionary[seq_result.value[1]] # dictionary[seq_result.value[2]]
    /\ seq_result.value[1] > seq_result.value[2]

\* C10: spellcheck keeps a candidate iff the kernel returned a value for it: each such
\* dictionary entry once, nothing else, values equal to max_distance included; an empty
\* dictionary gives an empty output.
C10_KeepsExactlySome ==
    SeqReturned =>
        /\ {seq_result.value[i] : i \in DOMAIN seq_result.value}
               = {p \in DOMAIN dictionary : Reported(p).kind = "Some"}
        /\ \A i, j \in DOMAIN seq_result.value : i # j => seq_result.value[i] # seq_result.value[j]
        /\ Len(seq_result.value) <= Len(dictionary)
        /\ (dictionary = <<>> => seq_result.value = <<>>)

\* spellcheck kept a candidate whose reported distance is max_distance and dropped another
C10_Witness ==
    /\ SeqReturned
    /\ max_distance >= 1
    /\ \E i \in DOMAIN seq_result.value : Reported(seq_result.value[i]) = Some(max_distance)
    /\ \E p \in DOMAIN dictionary : Reported(p) = None

\* ---------------------------------------------------------------- RayonSpec
\* C9: under every scheduling of the evaluations, spell_check_rayon sorts only once every
\* candidate has been evaluated, and returns the candidates spellcheck returns (as a
\* multiset) with the same non-decreasing sequence of reported distances; it panics
\* exactly when spellcheck does.
C9_RayonMatchesSequential ==
    /\ par_pc = "sorted" =>
           /\ par_evaluated = DOMAIN dictionary
           /\ SortedByKey(par_suggestions)
           /\ \A r \in spellcheck(dictionary, word, max_distance, overflow_checks) :
                  /\ r.outcome.kind = "Returned"
                  /\ \A c \in Strings(MaxCandLen) :
                         Occurrences(par_result.value, c) = Occurrences(r.outcome.value, c)
                  /\ Len(par_suggestions) = Len(r.suggestions)
                  /\ \A i \in DOMAIN par_suggestions : par_suggestions[i][1] = r.suggestions[i][1]
    /\ par_pc = "panicked" =>
           \A r \in spellcheck(dictionary, word, max_distance, overflow_checks) :
               r.outcome = Panic

\* spell_check_rayon returned two different strings of equal reported distance against
\* dictionary order
C9_Witness ==
    /\ par_pc = "sorted"
    /\ Len(par_result.value) >= 2
    /\ par_suggestions[1][1] = par_suggestions[2][1]
    /\ dictionary[par_result.value[1]] # dictionary[par_result.value[2]]
    /\ par_result.value[1] > par_result.value[2]

====
